---- MODULE Spec2Model ----
(***************************************************************************)
(* A model of the motion-detector vision service                           *)
(* (src/src/motion_detector/motion_detector.py).                           *)
(*                                                                         *)
(* The service object holds cam_name, camera, sensitivity and min_box_size *)
(* (set by reconfigure).  get_classifications and get_detections are       *)
(* coroutines: each awaits two camera captures and then, without further   *)
(* suspension, differences, thresholds and scores the two frames.          *)
(*                                                                         *)
(* Frames are modelled after the grayscale conversion (cv2.cvtColor): a    *)
(* frame is a record [w, h, px] with px a function from <<x, y>> to an     *)
(* 8-bit intensity.  Sensitivities are in thousandths (SensScale); the     *)
(* values drawn are ones for which the double arithmetic of                *)
(* math.floor((1 - s) * 255) agrees with the exact arithmetic used here.   *)
(* A confidence is the exact ratio [num, den] of the float division.       *)
(***************************************************************************)
EXTENDS Integers, Sequences, FiniteSets, TLC

\* ------------------------------------------------------------ numbers

\* sensitivity 1.0 in the model's unit (thousandths)
SensScale == 1000

\* the 255 of (1 - sensitivity) * 255
MaxGray == 255

\* the value written into the detector's mask above the threshold
White == 255

\* the value written into the classifier's mask above the threshold
One == 1

\* the sensitivity reconfigure substitutes for 0 (0.9)
DefaultSensitivity == 900

\* np.ones((3, 3)) and np.ones((15, 15))
KernelSmall == 3

KernelLarge == 15

Abs(n) == IF n < 0 THEN 0 - n ELSE n

Max2(a, b) == IF a > b THEN a ELSE b

Min2(a, b) == IF a < b THEN a ELSE b

MinOf(S) == CHOOSE m \in S : \A x \in S : m <= x

MaxOf(S) == CHOOSE m \in S : \A x \in S : m >= x

\* ------------------------------------------------------------- frames

Pix(w, h) == (0..(w - 1)) \X (0..(h - 1))

\* a pixel buffer holds its values: the function is evaluated once, when the
\* array is built (f @@ <<>> equals f)
Array(f) == f @@ <<>>

Frame(w, h, f) == [w |-> w, h |-> h, px |-> Array(f)]

NoFrame == Frame(0, 0, [p \in Pix(0, 0) |-> 0])

\* img.size[0] * img.size[1]
NumPixels(img) == img.w * img.h

RECURSIVE SumOver(_, _)
SumOver(f, S) ==
    IF S = {} THEN 0
    ELSE LET p == CHOOSE q \in S : TRUE
         IN  f[p] + SumOver(f, S \ {p})

\* np.sum(diff): numpy accumulates uint8 in a 64-bit integer, so no wrap
PixelSum(img) == SumOver(img.px, Pix(img.w, img.h))

\* ------------------------------------------------------ cv2.absdiff

SameSize(a, b) == a.w = b.w /\ a.h = b.h

\* cv2.absdiff raises cv2.error unless its operands have the same size: for
\* arrays of different sizes OpenCV accepts only a scalar second operand of
\* type double, which a uint8 frame is not, whatever its size
absdiffFails(src1, src2) == ~SameSize(src1, src2)

\* the per-pixel absolute difference of two frames of the same size
absdiff(src1, src2) ==
    Frame(src1.w, src1.h,
          [p \in Pix(src1.w, src1.h) |-> Abs(src1.px[p] - src2.px[p])])

\* ------------------------------------------------------- thresholding

\* k = math.floor((1 - self.sensitivity) * 255)
K(sens) == ((SensScale - sens) * MaxGray) \div SensScale

\* diff[diff < k] = 0
BelowToZero(v, k) == IF v < k THEN 0 ELSE v

\* the second assignment, were it written diff[diff >= k] = hi
AboveOrEqualTo(v, k, hi) == IF v >= k THEN hi ELSE v

\* diff[diff > k] = hi
AboveTo(v, k, hi) == IF v > k THEN hi ELSE v

\* the two assignments, in the order the code makes them
Threshold(diff, k, hi) ==
    Frame(diff.w, diff.h,
          [p \in Pix(diff.w, diff.h) |->
               AboveTo(BelowToZero(diff.px[p], k), k, hi)])

\* ---------------------------------------------------- classification

Conf(n, d) == [num |-> n, den |-> d]

\* conf = np.sum(diff) / (img1.size[0] * img1.size[1])
Confidence(mask, img1) == Conf(PixelSum(mask), NumPixels(img1))

\* the list, were a classification only reported when something moved
ClassificationsIfMotion(conf) ==
    IF conf.num = 0 THEN <<>>
    ELSE << [class_name |-> "motion", confidence |-> conf] >>

\* classifications = [{"class_name": "motion", "confidence": conf}]
Classifications(conf) == << [class_name |-> "motion", confidence |-> conf] >>

\* ------------------------------------------------------- morphology

\* the pixels of img under a ksize x ksize kernel anchored at p; pixels
\* outside the image do not take part (OpenCV's default border value)
Window(img, p, ksize) ==
    LET r == ksize \div 2
    IN  (Max2(0, p[1] - r)..Min2(img.w - 1, p[1] + r))
            \X (Max2(0, p[2] - r)..Min2(img.h - 1, p[2] + r))

erode(img, ksize) ==
    Frame(img.w, img.h,
          [p \in Pix(img.w, img.h) |->
               MinOf({img.px[q] : q \in Window(img, p, ksize)})])

dilate(img, ksize) ==
    Frame(img.w, img.h,
          [p \in Pix(img.w, img.h) |->
               MaxOf({img.px[q] : q \in Window(img, p, ksize)})])

\* erode 3x3, dilate 3x3, dilate 15x15, erode 15x15
Morphology(diff) ==
    erode(dilate(dilate(erode(diff, KernelSmall), KernelSmall), KernelLarge),
          KernelLarge)

\* --------------------------------------------------- cv2.findContours

\* findContours takes every non-zero pixel as foreground
Foreground(img) == {p \in Pix(img.w, img.h) : img.px[p] # 0}

Nbr8(p) ==
    {q \in ((p[1] - 1)..(p[1] + 1)) \X ((p[2] - 1)..(p[2] + 1)) : q # p}

Nbr4(p) ==
    {<<p[1] - 1, p[2]>>, <<p[1] + 1, p[2]>>, <<p[1], p[2] - 1>>,
     <<p[1], p[2] + 1>>}

\* the 8-connected component of FG grown from the frontier F
RECURSIVE Grow8(_, _, _)
Grow8(S, F, FG) ==
    LET N == ((UNION {Nbr8(p) : p \in F}) \cap FG) \ S
    IN  IF N = {} THEN S ELSE Grow8(S \cup N, N, FG)

\* the region 4-connected to the frontier F through pixels of Free
RECURSIVE Grow4(_, _, _)
Grow4(S, F, Free) ==
    LET N == ((UNION {Nbr4(p) : p \in F}) \cap Free) \ S
    IN  IF N = {} THEN S ELSE Grow4(S \cup N, N, Free)

\* the first pixel of S in raster order (top row first, then leftmost)
FirstRaster(S) ==
    CHOOSE p \in S : \A q \in S : p[2] < q[2] \/ (p[2] = q[2] /\ p[1] <= q[1])

\* the 8-connected foreground components, in raster order of first pixel
RECURSIVE Components(_)
Components(FG) ==
    IF FG = {} THEN <<>>
    ELSE LET s == FirstRaster(FG)
             C == Grow8({s}, {s}, FG)
         IN  <<C>> \o Components(FG \ C)

\* xmin, xmax, ymin, ymax = min(xs), max(xs), min(ys), max(ys)
Extent(C) ==
    [xmin |-> MinOf({p[1] : p \in C}), xmax |-> MaxOf({p[1] : p \in C}),
     ymin |-> MinOf({p[2] : p \in C}), ymax |-> MaxOf({p[2] : p \in C})]

\* the image plus a one-pixel frame around it
Padded(img) == ((0 - 1)..img.w) \X ((0 - 1)..img.h)

\* D surrounds C: no 4-connected path of pixels outside D leads from C to
\* the frame of the image (C lies in a hole of D)
Surrounds(img, D, C) ==
    LET d == Extent(D)
        c == Extent(C)
    IN  /\ d.xmin < c.xmin /\ c.xmax < d.xmax
        /\ d.ymin < c.ymin /\ c.ymax < d.ymax
        /\ Grow4(C, C, Padded(img) \ D) \cap (Padded(img) \ Pix(img.w, img.h))
               = {}

\* cv2.RETR_EXTERNAL: only the components no other component surrounds
RECURSIVE SelectExternal(_, _, _)
SelectExternal(img, comps, i) ==
    IF i > Len(comps) THEN <<>>
    ELSE (IF \E j \in 1..Len(comps) :
                 j # i /\ Surrounds(img, comps[j], comps[i])
          THEN <<>> ELSE << comps[i] >>)
         \o SelectExternal(img, comps, i + 1)

\* the extremal coordinates of each outer contour (CHAIN_APPROX_NONE keeps
\* every boundary point, so they are those of the component)
RECURSIVE Extents(_, _)
Extents(comps, i) ==
    IF i > Len(comps) THEN <<>>
    ELSE << Extent(comps[i]) >> \o Extents(comps, i + 1)

findContours(img) ==
    Extents(SelectExternal(img, Components(Foreground(img)), 1), 1)

\* ---------------------------------------------------------- detection

\* the area test, were it written with >=
BigEnoughOrEqual(c, min_box_size) ==
    (c.ymax - c.ymin) * (c.xmax - c.xmin) >= min_box_size

\* (ymax - ymin) * (xmax - xmin) > self.min_box_size
BigEnough(c, min_box_size) ==
    (c.ymax - c.ymin) * (c.xmax - c.xmin) > min_box_size

MakeDetection(c) ==
    [confidence |-> Conf(1, 2), class_name |-> "motion",
     x_min |-> c.xmin, y_min |-> c.ymin, x_max |-> c.xmax, y_max |-> c.ymax]

\* for c in contours: ... detections.append(...)
RECURSIVE Detections(_, _, _)
Detections(contours, i, min_box_size) ==
    IF i > Len(contours) THEN <<>>
    ELSE (IF BigEnough(contours[i], min_box_size)
          THEN << MakeDetection(contours[i]) >> ELSE <<>>)
         \o Detections(contours, i + 1, min_box_size)

\* what the locals hold when cv2.absdiff raises
Raised ==
    [k |-> 0, diff |-> NoFrame, imgOut |-> NoFrame, contours |-> <<>>,
     result |-> [status |-> "raised", error |-> "cv2.error", value |-> <<>>]]

\* get_classifications, were it to difference the region the two frames
\* share instead of leaving the mismatch to cv2.absdiff
classification_of_common_region(gray1, gray2, sens) ==
    LET w == Min2(gray1.w, gray2.w)
        h == Min2(gray1.h, gray2.h)
        k == K(sens)
        diff == Threshold(Frame(w, h, [p \in Pix(w, h) |->
                                          Abs(gray2.px[p] - gray1.px[p])]),
                          k, One)
    IN  [k |-> k, diff |-> diff, imgOut |-> NoFrame, contours |-> <<>>,
         result |-> [status |-> "returned", error |-> "none",
                     value |-> Classifications(Confidence(diff, gray1))]]

\* get_classifications from "Frame difference" on: its locals at the end
classification_from_gray_imgs(gray1, gray2, sens) ==
    IF absdiffFails(gray2, gray1) THEN Raised
    ELSE LET k == K(sens)
             diff == Threshold(absdiff(gray2, gray1), k, One)
         IN  [k |-> k, diff |-> diff, imgOut |-> NoFrame, contours |-> <<>>,
              result |-> [status |-> "returned", error |-> "none",
                          value |-> Classifications(Confidence(diff, gray1))]]

\* get_detections from "Frame difference" on: its locals at the end
detections_from_gray_imgs(gray1, gray2, sens, min_box_size) ==
    IF absdiffFails(gray2, gray1) THEN Raised
    ELSE LET k == K(sens)
             diff == Threshold(absdiff(gray2, gray1), k, White)
             imgOut == Morphology(diff)
             contours == findContours(imgOut)
         IN  [k |-> k, diff |-> diff, imgOut |-> imgOut,
              contours |-> contours,
              result |-> [status |-> "returned", error |-> "none",
                          value |-> Detections(contours, 1, min_box_size)]]

\* ------------------------------------------------------------ service

VARIABLES
    cam_name,       \* self.cam_name
    camera,         \* self.camera, named by the camera it is
    sensitivity,    \* self.sensitivity, in thousandths
    min_box_size,   \* self.min_box_size
    inv,            \* the in-flight invocations: position and locals
    obs             \* per invocation: what an observer of its calls saw

vars == <<cam_name, camera, sensitivity, min_box_size, inv, obs>>

CamNames == {"cam1", "cam2"}

ClassifyOps == {"get_classifications", "get_classifications_from_camera"}

DetectOps == {"get_detections", "get_detections_from_camera"}

FromCameraOps == {"get_classifications_from_camera",
                  "get_detections_from_camera"}

NoResult == [status |-> "none", error |-> "none", value |-> <<>>]

Idle ==
    [pc |-> "idle", op |-> "none", req |-> "none", img1 |-> NoFrame,
     img2 |-> NoFrame, k |-> 0, diff |-> NoFrame, imgOut |-> NoFrame,
     contours |-> <<>>, result |-> NoResult]

\* entry: the attributes when the call arrived; requests: the get_image
\* calls made; captures: the frames they returned, each with its camera;
\* used: the attributes read after the second capture
NoObs ==
    [entry |-> [camera |-> "none", sensitivity |-> 0, min_box_size |-> 0],
     requests |-> 0, captures |-> <<>>,
     used |-> [sensitivity |-> 0, min_box_size |-> 0]]

\* validate_config: the config is accepted
validate_config(cfg) ==
    /\ ~(cfg.min_box_size < 0)
    /\ ~(cfg.sensitivity < 0 \/ cfg.sensitivity > SensScale)

\* if self.sensitivity == 0: self.sensitivity = 0.9
ConfiguredSensitivity(s) == IF s = 0 THEN DefaultSensitivity ELSE s

\* reconfigure: the four attributes it assigns
reconfigure(cfg) ==
    /\ cam_name' = cfg.cam_name
    /\ camera' = cfg.cam_name
    /\ sensitivity' = ConfiguredSensitivity(cfg.sensitivity)
    /\ min_box_size' = cfg.min_box_size

\* new_service: the state after cls(config.name) and reconfigure(config)
new_service(cfg, slots) ==
    /\ cam_name = cfg.cam_name
    /\ camera = cfg.cam_name
    /\ sensitivity = ConfiguredSensitivity(cfg.sensitivity)
    /\ min_box_size = cfg.min_box_size
    /\ inv = [i \in slots |-> Idle]
    /\ obs = [i \in slots |-> NoObs]

\* reconfigure runs between the steps of the coroutines
Reconfigure(cfg) ==
    /\ reconfigure(cfg)
    /\ UNCHANGED <<inv, obs>>

\* the binding, were the frame kept in an attribute of the service, which
\* every invocation reads, instead of a local
BindFrameShared(i, name, f) ==
    [j \in DOMAIN inv |-> [inv[j] EXCEPT ![name] = f]]

\* a local of invocation i is bound to a frame
BindFrame(i, name, f) == [inv EXCEPT ![i][name] = f]

\* the observer's record of a get_image call answered with frame f
Captured(i, f) ==
    [obs EXCEPT ![i].captures =
                    Append(@, [camera |-> inv[i].req, frame |-> f])]

\* the observer's record of one more get_image call
Requested(o, i) == [o EXCEPT ![i].requests = @ + 1]

\* a call arrives; it runs up to its first await self.camera.get_image()
Call(i, op, camera_name) ==
    /\ inv[i].pc = "idle"
    /\ LET entered ==
               [obs EXCEPT ![i] =
                   [NoObs EXCEPT !.entry = [camera |-> camera,
                                            sensitivity |-> sensitivity,
                                            min_box_size |-> min_box_size]]]
       IN  IF op \in FromCameraOps /\ camera_name # cam_name
           THEN /\ inv' = [inv EXCEPT ![i] =
                              [Idle EXCEPT !.pc = "done", !.op = op,
                                           !.result = [status |-> "raised",
                                                       error |-> "Exception",
                                                       value |-> <<>>]]]
                /\ obs' = entered
           ELSE /\ inv' = [inv EXCEPT ![i] =
                              [Idle EXCEPT
                                  !.pc = IF op = "get_classifications_from_camera"
                                         THEN "image" ELSE "img1",
                                  !.op = op, !.req = camera]]
                /\ obs' = Requested(entered, i)
    /\ UNCHANGED <<cam_name, camera, sensitivity, min_box_size>>

\* image = await self.camera.get_image() of get_classifications_from_camera
\* completes; get_classifications starts and awaits its first capture
ImageCaptured(i, f) ==
    /\ inv[i].pc = "image"
    /\ inv' = [inv EXCEPT ![i].pc = "img1", ![i].req = camera]
    /\ obs' = Requested(Captured(i, f), i)
    /\ UNCHANGED <<cam_name, camera, sensitivity, min_box_size>>

\* the first capture completes; the second is requested of self.camera
FirstCaptured(i, f) ==
    /\ inv[i].pc = "img1"
    /\ inv' = [BindFrame(i, "img1", f) EXCEPT ![i].pc = "img2",
                                               ![i].req = camera]
    /\ obs' = Requested(Captured(i, f), i)
    /\ UNCHANGED <<cam_name, camera, sensitivity, min_box_size>>

\* the second capture completes; the rest of the method runs to its return
\* or to the exception that leaves it
SecondCaptured(i, f) ==
    /\ inv[i].pc = "img2"
    /\ LET bound == BindFrame(i, "img2", f)
           gray1 == bound[i].img1
           gray2 == bound[i].img2
           out == IF inv[i].op \in ClassifyOps
                  THEN classification_from_gray_imgs(gray1, gray2, sensitivity)
                  ELSE detections_from_gray_imgs(gray1, gray2, sensitivity,
                                                 min_box_size)
       IN  inv' = [bound EXCEPT ![i].pc = "done", ![i].req = "none",
                                ![i].k = out.k, ![i].diff = out.diff,
                                ![i].imgOut = out.imgOut,
                                ![i].contours = out.contours,
                                ![i].result = out.result]
    /\ obs' = [Captured(i, f) EXCEPT ![i].used =
                  [sensitivity |-> sensitivity, min_box_size |-> min_box_size]]
    /\ UNCHANGED <<cam_name, camera, sensitivity, min_box_size>>

\* the caller has the result (or the exception); the coroutine is gone
Return(i) ==
    /\ inv[i].pc = "done"
    /\ inv' = [inv EXCEPT ![i] = Idle]
    /\ obs' = [obs EXCEPT ![i] = NoObs]
    /\ UNCHANGED <<cam_name, camera, sensitivity, min_box_size>>

\* ------------------------------------------------------------- inputs

\* the largest width and height of the small frames
MaxDim == 2

\* the number of invocations in flight at once
NInv == 2

\* the width and height of the frames that show blobs
ImgSize == 20

GrayLevels == {0, 25, 152}

\* sensitivities 0 (unset), 0.5, 0.9, 1.0 and the invalid 1.5
SensValues == {0, 500, 900, 1000, 1500}

MinBoxValues == {0 - 1, 0, 1}

Configs ==
    [cam_name : CamNames, sensitivity : SensValues,
     min_box_size : MinBoxValues]

\* frames of one gray level, but for the top-left pixel
SmallFrames ==
    {Frame(d[1], d[2], [p \in Pix(d[1], d[2]) |->
                           IF p = <<0, 0>> THEN l[1] ELSE l[2]]) :
        d \in {e \in (1..MaxDim) \X (1..MaxDim) : e[2] <= e[1]},
        l \in GrayLevels \X GrayLevels}

\* one-pixel frames
TinyFrames == {Frame(1, 1, [p \in Pix(1, 1) |-> l]) : l \in GrayLevels}

\* ----------------------------------- one invocation at a time, any frames

Init == \E cfg \in Configs : new_service(cfg, {1})

\* the image get_classifications_from_camera captures first and does not
\* use is drawn from the one-pixel frames
Next ==
    \/ \E op \in ClassifyOps \cup DetectOps, n \in CamNames : Call(1, op, n)
    \/ \E f \in TinyFrames : ImageCaptured(1, f)
    \/ \E f \in SmallFrames : FirstCaptured(1, f)
    \/ \E f \in SmallFrames : SecondCaptured(1, f)
    \/ Return(1)

Spec == Init /\ [][Next]_vars

\* --------------------------------------- several invocations in flight

InitConc ==
    \E cfg \in {c \in Configs : c.cam_name = "cam1"} :
        new_service(cfg, 1..NInv)

NextConc ==
    \E i \in 1..NInv :
        \/ \E op \in {"get_classifications", "get_detections"} :
               Call(i, op, cam_name)
        \/ \E f \in TinyFrames : FirstCaptured(i, f)
        \/ \E f \in TinyFrames : SecondCaptured(i, f)
        \/ Return(i)

SpecConc == InitConc /\ [][NextConc]_vars

\* ------------------------------- reconfigure while an invocation runs

\* the configs validate_config accepts
ValidConfigs == {c \in Configs : validate_config(c)}

InitReconf == \E cfg \in ValidConfigs : new_service(cfg, {1})

NextReconf ==
    \/ \E cfg \in ValidConfigs : Reconfigure(cfg)
    \/ \E op \in {"get_classifications", "get_detections"} :
           Call(1, op, cam_name)
    \/ \E f \in TinyFrames : FirstCaptured(1, f)
    \/ \E f \in TinyFrames : SecondCaptured(1, f)
    \/ Return(1)

SpecReconf == InitReconf /\ [][NextReconf]_vars

\* --------------------------------- detections of frames that show blobs

\* <<offset, side, level, noise>>: a square of the given side and gray level
\* with its top-left corner at <<offset, offset>>, on black; noise is the
\* gray level of the single pixel in the bottom-right corner
BlobShapes ==
    {<<0, 0, 0, 0>>, <<0, 10, 200, 0>>, <<1, 10, 200, 0>>,
     <<0, 11, 200, 200>>, <<0, 10, 25, 0>>}

BlobFrame(b) ==
    Frame(ImgSize, ImgSize,
          [p \in Pix(ImgSize, ImgSize) |->
               IF /\ p[1] >= b[1] /\ p[1] < b[1] + b[2]
                  /\ p[2] >= b[1] /\ p[2] < b[1] + b[2]
               THEN b[3]
               ELSE IF p = <<ImgSize - 1, ImgSize - 1>> THEN b[4] ELSE 0])

BlobFrames == {BlobFrame(b) : b \in BlobShapes}

BlobConfigs ==
    [cam_name : {"cam1"}, sensitivity : {DefaultSensitivity},
     min_box_size : {80, 81, 99, 100}]

InitBlob == \E cfg \in BlobConfigs : new_service(cfg, {1})

NextBlob ==
    \/ Call(1, "get_detections", cam_name)
    \/ \E f \in BlobFrames : FirstCaptured(1, f)
    \/ \E f \in BlobFrames : SecondCaptured(1, f)
    \/ Return(1)

SpecBlob == InitBlob /\ [][NextBlob]_vars

\* ------------------------------------------------------------- claims

\* invocation i has left its method after both of its captures
Finished(i) == inv[i].pc = "done" /\ Len(obs[i].captures) >= 2

\* invocation i returned a value
Returned(i) == Finished(i) /\ inv[i].result.status = "returned"

\* the sensitivity and minimum box area the invocation read are valid
ValidParams(u) ==
    /\ u.sensitivity >= 0 /\ u.sensitivity <= SensScale
    /\ u.min_box_size >= 0

ConfLeq(a, b) == a.num * b.den <= b.num * a.den

\* the confidence get_classifications gives two frames at a sensitivity
ConfidenceAt(gray1, gray2, sens) ==
    classification_from_gray_imgs(gray1, gray2, sens).result.value[1].confidence

\* C1: for identical frames and valid parameters, classify returns one
\* classification of confidence exactly 0 and detect returns no detection,
\* also at sensitivity 1 (k = 0).
C1_IdenticalFrames ==
    \A i \in DOMAIN inv :
        (/\ Finished(i)
         /\ inv[i].img1 = inv[i].img2
         /\ ValidParams(obs[i].used))
        => /\ inv[i].result.status = "returned"
           /\ IF inv[i].op \in ClassifyOps
              THEN /\ Len(inv[i].result.value) = 1
                   /\ inv[i].result.value[1].confidence.num = 0
                   /\ inv[i].result.value[1].confidence.den > 0
              ELSE inv[i].result.value = <<>>

\* a classification of two identical frames that are not black, at k = 0
C1_Witness ==
    \E i \in DOMAIN inv :
        /\ Returned(i)
        /\ inv[i].op = "get_classifications"
        /\ inv[i].img1 = inv[i].img2
        /\ \E p \in DOMAIN inv[i].img1.px : inv[i].img1.px[p] # 0
        /\ obs[i].used.sensitivity = SensScale
        /\ inv[i].k = 0
        /\ inv[i].result.value[1].confidence.num = 0

\* C2: for frames of the same size and a valid sensitivity, the confidence
\* classify returns lies in [0, 1].
C2_ConfidenceInUnitInterval ==
    \A i \in DOMAIN inv :
        (/\ Returned(i)
         /\ inv[i].op \in ClassifyOps
         /\ SameSize(inv[i].img1, inv[i].img2)
         /\ ValidParams(obs[i].used))
        => /\ inv[i].result.value[1].confidence.num >= 0
           /\ inv[i].result.value[1].confidence.num
                  <= inv[i].result.value[1].confidence.den

\* C3: for a fixed pair of frames and sensitivities s1 <= s2 in [0, 1] as
\* given to reconfigure, the confidence with s2 is at least the one with s1.
C3_MonotoneInSensitivity ==
    \A i \in DOMAIN inv :
        (Returned(i) /\ inv[i].op \in ClassifyOps /\ ValidParams(obs[i].used))
        => \A s1, s2 \in {s \in SensValues : s >= 0 /\ s <= SensScale} :
               (s1 <= s2 /\ ConfiguredSensitivity(s1) = obs[i].used.sensitivity)
               => ConfLeq(inv[i].result.value[1].confidence,
                          ConfidenceAt(inv[i].img1, inv[i].img2,
                                       ConfiguredSensitivity(s2)))

\* C5: when the two captured frames differ in width or height, classify and
\* detect raise an error, produce no classification or detection, and make
\* no further capture or computation.
C5_DimensionMismatchRaises ==
    \A i \in DOMAIN inv :
        (Finished(i) /\ ~SameSize(inv[i].img1, inv[i].img2))
        => /\ inv[i].result.status = "raised"
           /\ inv[i].result.error = "cv2.error"
           /\ inv[i].result.value = <<>>
           /\ inv[i].diff = NoFrame
           /\ obs[i].requests = Len(obs[i].captures)
           /\ obs[i].requests
                  = IF inv[i].op = "get_classifications_from_camera"
                    THEN 3 ELSE 2

\* a call that raised for two frames that differ in height only
C5_Witness ==
    \E i \in DOMAIN inv :
        /\ Finished(i)
        /\ inv[i].img1.w = inv[i].img2.w
        /\ inv[i].img1.h # inv[i].img2.h
        /\ inv[i].result.status = "raised"

\* C6: a call made while the sensitivity is outside [0, 1] or the minimum
\* box area is negative fails with InvalidParameter before any computation,
\* and k is never outside [0, 255].
C6_InvalidParameterRaises ==
    \A i \in DOMAIN inv :
        Finished(i)
        => /\ inv[i].k >= 0 /\ inv[i].k <= MaxGray
           /\ ~ValidParams(obs[i].used)
                  => /\ inv[i].result.status = "raised"
                     /\ inv[i].result.error = "InvalidParameter"
                     /\ inv[i].diff = NoFrame

\* C7: for two frames of the same size classify returns exactly one
\* classification, of class "motion", also through
\* get_classifications_from_camera with the configured camera name.
C7_OneClassification ==
    \A i \in DOMAIN inv :
        (/\ Finished(i)
         /\ inv[i].op \in ClassifyOps
         /\ SameSize(inv[i].img1, inv[i].img2))
        => /\ inv[i].result.status = "returned"
           /\ Len(inv[i].result.value) = 1
           /\ inv[i].result.value[1].class_name = "motion"

\* get_classifications_from_camera returned for two frames without motion
C7_Witness ==
    \E i \in DOMAIN inv :
        /\ Returned(i)
        /\ inv[i].op = "get_classifications_from_camera"
        /\ Len(obs[i].captures) = 3
        /\ Len(inv[i].result.value) = 1
        /\ inv[i].result.value[1].confidence.num = 0

\* the value a mask pixel has for "motion": 1 for classify, 255 for detect
MotionValue(op) == IF op \in ClassifyOps THEN One ELSE White

\* C8: after thresholding with k = floor((1 - sensitivity) * 255), a mask
\* pixel is 1 (classify) or 255 (detect) if its difference is >= k and 0
\* otherwise, so the mask holds only the two values.
C8_ThresholdRule ==
    \A i \in DOMAIN inv :
        (Returned(i) /\ ValidParams(obs[i].used))
        => /\ inv[i].k = K(obs[i].used.sensitivity)
           /\ \A p \in DOMAIN inv[i].diff.px :
                  inv[i].diff.px[p]
                      = IF absdiff(inv[i].img2, inv[i].img1).px[p] >= inv[i].k
                        THEN MotionValue(inv[i].op) ELSE 0

\* (ymax - ymin) * (xmax - xmin) of a contour's extremal coordinates
Area(c) == (c.ymax - c.ymin) * (c.xmax - c.xmin)

\* the foreground of img is exactly one filled square of side x side pixels
SquareBlob(img, side) ==
    LET FG == Foreground(img)
    IN  /\ FG # {}
        /\ Cardinality(FG) = side * side
        /\ Extent(FG).xmax - Extent(FG).xmin + 1 = side
        /\ Extent(FG).ymax - Extent(FG).ymin + 1 = side

\* C4, as stated: when the post-morphology mask holds exactly one square blob
\* of 10 x 10 foreground pixels, detect returns no detection for it with
\* minBoxArea = 100 and exactly one with minBoxArea = 99.
C4_TenByTenBlob ==
    \A i \in DOMAIN inv :
        (Returned(i) /\ inv[i].op \in DetectOps /\ SquareBlob(inv[i].imgOut, 10))
        => /\ obs[i].used.min_box_size = 100 => inv[i].result.value = <<>>
           /\ obs[i].used.min_box_size = 99 => Len(inv[i].result.value) = 1

\* C4, amended: a contour's box is emitted if and only if
\* (y_max - y_min) * (x_max - x_min) > minBoxArea, strictly; so one square blob
\* of 11 x 11 foreground pixels (extent 10 x 10 = 100) gives no detection with
\* minBoxArea = 100 and exactly one with minBoxArea = 99, and one of 10 x 10
\* pixels (extent 81) gives none with minBoxArea >= 81 and one with 80.
C4_AreaFilter ==
    \A i \in DOMAIN inv :
        (Returned(i) /\ inv[i].op \in DetectOps)
        => LET mb == obs[i].used.min_box_size
               cs == inv[i].contours
               ds == inv[i].result.value
           IN  /\ Len(ds) = Cardinality({j \in 1..Len(cs) : Area(cs[j]) > mb})
               /\ \A j \in 1..Len(cs) :
                      Area(cs[j]) > mb
                      <=> \E n \in 1..Len(ds) :
                              /\ ds[n].x_min = cs[j].xmin
                              /\ ds[n].x_max = cs[j].xmax
                              /\ ds[n].y_min = cs[j].ymin
                              /\ ds[n].y_max = cs[j].ymax
               /\ SquareBlob(inv[i].imgOut, 11)
                      => /\ mb = 100 => ds = <<>>
                         /\ mb = 99 => Len(ds) = 1
               /\ SquareBlob(inv[i].imgOut, 10)
                      => /\ mb >= 81 => ds = <<>>
                         /\ mb = 80 => Len(ds) = 1

\* one 11 x 11 blob after the morphology, of extent exactly 100, emitted with
\* minBoxArea = 99
C4_Witness ==
    \E i \in DOMAIN inv :
        /\ Returned(i)
        /\ inv[i].op = "get_detections"
        /\ SquareBlob(inv[i].imgOut, 11)
        /\ Len(inv[i].contours) = 1
        /\ Area(inv[i].contours[1]) = 100
        /\ obs[i].used.min_box_size = 99
        /\ Len(inv[i].result.value) = 1

\* what a solitary invocation returns for two frames under the service's
\* attributes
SoloResult(op, gray1, gray2) ==
    IF op \in ClassifyOps
    THEN classification_from_gray_imgs(gray1, gray2, sensitivity).result
    ELSE detections_from_gray_imgs(gray1, gray2, sensitivity,
                                   min_box_size).result

\* C9: however several get_classifications / get_detections invocations
\* interleave at their captures, each makes exactly two captures, the second
\* requested only once the first has completed, and returns what a solitary
\* invocation returns for the two frames it captured; equal calls on equal
\* frames return equal results.
C9_InvocationsIndependent ==
    /\ \A i \in DOMAIN inv :
           /\ obs[i].requests <= 2
           /\ obs[i].requests - Len(obs[i].captures) \in {0, 1}
           /\ inv[i].pc = "done"
                  => /\ obs[i].requests = 2
                     /\ Len(obs[i].captures) = 2
                     /\ inv[i].result
                            = SoloResult(inv[i].op, obs[i].captures[1].frame,
                                         obs[i].captures[2].frame)
    /\ \A i, j \in DOMAIN inv :
           (/\ inv[i].pc = "done" /\ inv[j].pc = "done"
            /\ inv[i].op = inv[j].op
            /\ obs[i].captures[1].frame = obs[j].captures[1].frame
            /\ obs[i].captures[2].frame = obs[j].captures[2].frame)
           => inv[i].result = inv[j].result

\* an invocation has returned motion while another, which captured a frame
\* unlike either of its frames, is suspended at its second capture
C9_Witness ==
    \E i, j \in DOMAIN inv :
        /\ i # j
        /\ Returned(i)
        /\ inv[i].op = "get_classifications"
        /\ inv[i].result.value[1].confidence.num > 0
        /\ inv[j].pc = "img2"
        /\ inv[j].img1 # inv[i].img1
        /\ inv[j].img1 # inv[i].img2

\* C10: an invocation during which reconfigure runs still uses one
\* configuration: both frames come from the camera, and the sensitivity and
\* minimum box size are the ones, in effect when it started.
C10_SingleConfiguration ==
    \A i \in DOMAIN inv :
        Finished(i)
        => /\ \A n \in 1..Len(obs[i].captures) :
                  obs[i].captures[n].camera = obs[i].entry.camera
           /\ obs[i].used.sensitivity = obs[i].entry.sensitivity
           /\ obs[i].used.min_box_size = obs[i].entry.min_box_size

====
